---- MODULE Spec2Model ----
(***************************************************************************)
(* Model of misconfig-configvalueentropychecker (src/main.py):             *)
(*   calculate_entropy   - Shannon entropy of a string                     *)
(*   check_file_entropy  - open / dispatch on extension / parse / traverse *)
(*   traverse            - recursive walk collecting low-entropy strings   *)
(*                                                                         *)
(* Python strings are sequences of one-character strings.  Entropies are   *)
(* exact rationals [num, den] in thousandths of a bit; thresholds are      *)
(* integers in thousandths of a bit.                                       *)
(***************************************************************************)
EXTENDS Integers, Sequences, FiniteSets, TLC

(***************************************************************************)
(* Bounds of the model                                                     *)
(***************************************************************************)
\* longest string scored by the entropy specification
MaxStrLen == 4
\* number of nodes of the generated document trees
MaxNodes == 3
\* frames available to traverse() when check_file_entropy calls it
\* (the interpreter's recursion limit, scaled down)
RecursionLimit == 6
\* frames logging.warning needs below the frame that calls it
LogFrames == 2

\* obj[:50] in the log line
TruncLen == 50

(***************************************************************************)
(* Python values used as keys and paths: the type and str(value)           *)
(***************************************************************************)
PyStr(s) == [type |-> "str", s |-> s]
PyInt0 == [type |-> "int", s |-> <<"0">>]
PyInt1 == [type |-> "int", s |-> <<"1">>]
PyTrue == [type |-> "bool", s |-> <<"T", "r", "u", "e">>]
PyFalse == [type |-> "bool", s |-> <<"F", "a", "l", "s", "e">>]
PyNone == [type |-> "NoneType", s |-> <<"N", "o", "n", "e">>]

\* bool(v): the test of `if path`
Truthy(v) ==
    CASE v.type = "str" -> v.s # <<>>
      [] v.type = "int" -> v.s # <<"0">>
      [] v.type = "bool" -> v.s = PyTrue.s
      [] OTHER -> FALSE

\* str(i) for a list index
Digit(d) == <<"0", "1", "2", "3", "4", "5", "6", "7", "8", "9">>[d + 1]

RECURSIVE IntStr(_)
IntStr(i) == IF i < 10 THEN <<Digit(i)>> ELSE IntStr(i \div 10) \o <<Digit(i % 10)>>

(***************************************************************************)
(* calculate_entropy                                                       *)
(***************************************************************************)
Primes == <<2, 3, 5, 7, 11, 13, 17, 19, 23, 29, 31, 37, 41, 43, 47, 53, 59>>
PrimeLog2 == <<1000, 1585, 2322, 2807, 3459, 3700, 4087, 4248, 4524, 4858,
               4954, 5209, 5358, 5426, 5555, 5728, 5883>>

\* math.log(n, 2) in thousandths of a bit, additive over products
RECURSIVE Log2Milli(_)
Log2Milli(n) ==
    IF n = 1 THEN 0
    ELSE LET i == CHOOSE j \in 1..Len(Primes) :
                      /\ n % Primes[j] = 0
                      /\ \A h \in 1..(j - 1) : n % Primes[h] # 0
         IN PrimeLog2[i] + Log2Milli(n \div Primes[i])

\* variant: a character seen again is set to 1 instead of counted
FrequencyMapNoIncrement(data) == [char \in {data[i] : i \in 1..Len(data)} |-> 1]

\* the table the loop of lines 32-36 builds: each character of data, with
\* 1 for its first occurrence and 1 more for every further one
FrequencyMap(data) ==
    [char \in {data[i] : i \in 1..Len(data)} |->
        1 + Cardinality({i \in 1..Len(data) :
                            data[i] = char /\ \E h \in 1..(i - 1) : data[h] = char})]

RECURSIVE SumOver(_, _, _)
SumOver(f, S, data_length) ==
    IF S = {} THEN 0
    ELSE LET char == CHOOSE c \in S : TRUE
         IN \* -(probability * log2(probability)) * data_length
            f[char] * (Log2Milli(data_length) - Log2Milli(f[char]))
              + SumOver(f, S \ {char}, data_length)

calculate_entropy(data) ==
    IF data = <<>> THEN [num |-> 0, den |-> 1]
    ELSE LET frequency_map == FrequencyMap(data)
         IN [num |-> SumOver(frequency_map, DOMAIN frequency_map, Len(data)),
             den |-> Len(data)]

\* entropy < threshold
EntropyBelow(entropy, t) == entropy.num < t * entropy.den

(***************************************************************************)
(* Parsed documents: what json.load / yaml.safe_load return                *)
(***************************************************************************)
Chars(n, c) == [i \in 1..n |-> c]

StrNode(s) == [type |-> "str", s |-> s]
IntNode == [type |-> "int"]
NoneNode == [type |-> "NoneType"]
BoolNode == [type |-> "bool"]
ListNode(items) == [type |-> "list", items |-> items]
\* items: sequence of [key, value] in the dict's iteration order
DictNode(items) == [type |-> "dict", items |-> items]
Item(k, v) == [key |-> k, value |-> v]

NoData == [type |-> "undefined"]
Malformed == [type |-> "malformed"]

xx == <<"x", "x">>
ab == <<"a", "b">>

GenLeaves == {StrNode(<<>>), StrNode(xx), StrNode(ab), IntNode, BoolNode, NoneNode}
GenKeys == {PyStr(<<"a">>), PyInt0}

RECURSIVE TreesOfSize(_)
RECURSIVE Forests(_)
RECURSIVE KeySeqs(_)

\* sequences of n pairwise different keys
KeySeqs(n) ==
    IF n = 0 THEN {<<>>}
    ELSE {Append(ks, k) : <<ks, k>> \in
             {p \in KeySeqs(n - 1) \X GenKeys :
                 \A i \in 1..Len(p[1]) : p[1][i] # p[2]}}

\* sequences of trees with n nodes in all
Forests(n) ==
    IF n = 0 THEN {<<>>}
    ELSE UNION {{<<t>> \o f : <<t, f>> \in TreesOfSize(k) \X Forests(n - k)} :
                   k \in 1..n}

TreesOfSize(n) ==
    IF n = 1 THEN GenLeaves \cup {ListNode(<<>>), DictNode(<<>>)}
    ELSE {ListNode(f) : f \in Forests(n - 1)}
         \cup {DictNode([i \in 1..Len(p[1]) |-> Item(p[2][i], p[1][i])]) :
                 p \in {q \in Forests(n - 1) \X KeySeqs(n - 1) :
                           Len(q[1]) = Len(q[2])}}

GenTrees == UNION {TreesOfSize(n) : n \in 1..MaxNodes}

\* d lists around a leaf
RECURSIVE Nest(_, _)
Nest(d, leaf) == IF d = 0 THEN leaf ELSE ListNode(<<Nest(d - 1, leaf)>>)

PasswordDoc ==
    DictNode(<<
        Item(PyStr(<<"p", "a", "s", "s", "w", "o", "r", "d">>),
             StrNode(<<"1", "2", "3", "4", "5", "6">>)),
        Item(PyStr(<<"t", "o", "k", "e", "n">>),
             StrNode(<<"a", "K", "9", "$", "m", "Z", "q", "2", "!", "p", "L",
                       "7", "v", "X", "s">>))>>)

OrderDoc ==
    DictNode(<<
        Item(PyStr(<<"a">>), StrNode(xx)),
        Item(PyStr(<<"b">>),
             ListNode(<<StrNode(<<"y", "y">>), StrNode(<<"z", "z">>)>>))>>)

LongDoc == DictNode(<<Item(PyStr(<<"k">>), StrNode(Chars(TruncLen + 1, "a")))>>)

\* keys only a YAML document can have
YamlKeyDocs ==
    {DictNode(<<Item(k, DictNode(<<Item(PyStr(<<"a">>), StrNode(xx))>>)),
                Item(PyStr(<<"b">>), StrNode(xx))>>) :
        k \in {PyInt0, PyInt1, PyTrue, PyFalse, PyNone, PyStr(<<>>)}}

\* documents nested up to and beyond the frames traverse() can use
DeepDocs ==
    {Nest(d, StrNode(xx)) : d \in (RecursionLimit - LogFrames)..RecursionLimit}
    \cup {ListNode(<<Nest(RecursionLimit - LogFrames - 1, StrNode(ab)),
                     StrNode(xx), StrNode(xx)>>),
          ListNode(<<StrNode(xx), Nest(RecursionLimit, IntNode), StrNode(xx)>>)}

\* no string anywhere
ScalarDoc ==
    DictNode(<<Item(PyStr(<<"n">>), IntNode),
               Item(PyStr(<<"l">>), ListNode(<<BoolNode, NoneNode>>))>>)

ExampleDocs == {PasswordDoc, OrderDoc, LongDoc, ScalarDoc}

RECURSIVE StringKeys(_)
StringKeys(t) ==
    CASE t.type = "dict" ->
           \A i \in 1..Len(t.items) :
              t.items[i].key.type = "str" /\ StringKeys(t.items[i].value)
      [] t.type = "list" -> \A i \in 1..Len(t.items) : StringKeys(t.items[i])
      [] OTHER -> TRUE

YamlDocs == GenTrees \cup ExampleDocs \cup YamlKeyDocs \cup DeepDocs
JsonDocs == {t \in YamlDocs : StringKeys(t)}

Thresholds == {-1000, 0, 1000, 3000, 5000}

(***************************************************************************)
(* State                                                                   *)
(***************************************************************************)
VARIABLES
    file_ext,            \* suffix of file_path: "json", "yaml", "yml", "txt"
    file_state,          \* "ok", "missing", "unreadable": what open() meets
    content,             \* the document in the file, or Malformed
    threshold,           \* thousandths of a bit
    pc,                  \* position in check_file_entropy / main
    parser,              \* the parser that was invoked: "none", "json", "yaml"
    data,                \* the parsed document
    stack,               \* the frames of traverse(): [obj, path, i, pos]
    low_entropy_values,  \* the findings: [path, value, entropy]
    warnings,            \* the lines logging.warning wrote
    caught,              \* the except clause (or early return) taken
    result,              \* what check_file_entropy returned
    stdout,              \* what main printed
    visited,             \* positions of the nodes traverse() was called on
    scored,              \* positions of the strings given to calculate_entropy
    found_pos,           \* positions of the findings
    raised,              \* an exception was raised while traversing
    prev,                \* the result of an earlier call on the same file
    data_in,             \* entropy specification: the string scored
    frequency_map,       \* entropy specification: the table built
    entropy,             \* entropy specification: the value returned
    epc                  \* entropy specification: "call" or "return"

vars == <<file_ext, file_state, content, threshold, pc, parser, data, stack,
          low_entropy_values, warnings, caught, result, stdout, visited,
          scored, found_pos, raised, prev, data_in, frequency_map, entropy, epc>>

inputVars == <<file_ext, file_state, content>>
entropyVars == <<data_in, frequency_map, entropy, epc>>
ghostVars == <<visited, scored, found_pos>>

NoResult == [returned |-> FALSE, value |-> <<>>]
NoPrev == [has |-> FALSE, threshold |-> 0, value |-> <<>>]

Files ==
    {[ext |-> "json", state |-> "ok", content |-> c] : c \in JsonDocs \cup {Malformed}}
    \cup {[ext |-> "yaml", state |-> "ok", content |-> c] :
             c \in YamlDocs \cup {Malformed}}
    \cup {[ext |-> "yml", state |-> "ok", content |-> c] :
             c \in ExampleDocs \cup YamlKeyDocs \cup {Malformed}}
    \cup {[ext |-> "txt", state |-> "ok", content |-> c] :
             c \in ExampleDocs \cup {Malformed}}
    \cup {[ext |-> e, state |-> st, content |-> c] :
             e \in {"json", "yaml", "yml", "txt"},
             st \in {"missing", "unreadable"},
             c \in {PasswordDoc}}

\* the state at the first line of check_file_entropy (line 57 done)
Entry(t) ==
    /\ threshold = t
    /\ pc = "open"
    /\ parser = "none"
    /\ data = NoData
    /\ stack = <<>>
    /\ low_entropy_values = <<>>
    /\ warnings = <<>>
    /\ caught = "none"
    /\ result = NoResult
    /\ stdout = <<>>
    /\ visited = <<>>
    /\ scored = <<>>
    /\ found_pos = <<>>
    /\ raised = FALSE

Init ==
    /\ \E f \in Files :
          /\ file_ext = f.ext
          /\ file_state = f.state
          /\ content = f.content
    /\ \E t \in Thresholds : Entry(t)
    /\ prev = NoPrev
    /\ data_in = <<>>
    /\ frequency_map = <<>>
    /\ entropy = [num |-> 0, den |-> 1]
    /\ epc = "idle"

(***************************************************************************)
(* check_file_entropy: open, dispatch, parse                               *)
(***************************************************************************)
\* line 60: open(file_path, 'r')
Open ==
    /\ pc = "open"
    /\ IF file_state = "ok" THEN pc' = "dispatch" /\ caught' = caught
       ELSE /\ pc' = "return"
            /\ caught' = IF file_state = "missing" THEN "FileNotFoundError"
                         ELSE "Exception"
    /\ UNCHANGED <<inputVars, threshold, parser, data, stack, low_entropy_values,
                   warnings, result, stdout, ghostVars, raised, prev, entropyVars>>

\* lines 61-62: json.load
LoadJson ==
    /\ pc = "dispatch"
    /\ file_ext = "json"
    /\ parser' = "json"
    /\ IF content = Malformed
       THEN pc' = "return" /\ caught' = "JSONDecodeError" /\ data' = data
       ELSE pc' = "traverse" /\ caught' = caught /\ data' = content
    /\ UNCHANGED <<inputVars, threshold, stack, low_entropy_values, warnings,
                   result, stdout, ghostVars, raised, prev, entropyVars>>

\* variant: every file that is not .json goes to the YAML parser
LoadYamlAnySuffix ==
    /\ pc = "dispatch"
    /\ file_ext # "json"
    /\ parser' = "yaml"
    /\ IF content = Malformed
       THEN pc' = "return" /\ caught' = "YAMLError" /\ data' = data
       ELSE pc' = "traverse" /\ caught' = caught /\ data' = content
    /\ UNCHANGED <<inputVars, threshold, stack, low_entropy_values, warnings,
                   result, stdout, ghostVars, raised, prev, entropyVars>>

\* lines 63-64: yaml.safe_load
LoadYaml ==
    /\ pc = "dispatch"
    /\ file_ext \in {"yaml", "yml"}
    /\ parser' = "yaml"
    /\ IF content = Malformed
       THEN pc' = "return" /\ caught' = "YAMLError" /\ data' = data
       ELSE pc' = "traverse" /\ caught' = caught /\ data' = content
    /\ UNCHANGED <<inputVars, threshold, stack, low_entropy_values, warnings,
                   result, stdout, ghostVars, raised, prev, entropyVars>>

\* lines 65-67: return []
Unsupported ==
    /\ pc = "dispatch"
    /\ file_ext \notin {"json", "yaml", "yml"}
    /\ caught' = "unsupported"
    /\ result' = [returned |-> TRUE, value |-> <<>>]
    /\ pc' = "done"
    /\ UNCHANGED <<inputVars, threshold, parser, data, stack, low_entropy_values,
                   warnings, stdout, ghostVars, raised, prev, entropyVars>>

(***************************************************************************)
(* traverse (lines 70-85)                                                  *)
(***************************************************************************)
\* line 73: f"{path}.{key}" if path else key
NewPathDict(path, key) ==
    IF Truthy(path) THEN PyStr(path.s \o <<".">> \o key.s) ELSE key

\* variant: the index is counted from 1
NewPathListOneBased(path, i) ==
    PyStr(path.s \o <<"[">> \o IntStr(i + 1) \o <<"]">>)

\* line 77: f"{path}[{i}]", i counted from 0
NewPathList(path, i) == PyStr(path.s \o <<"[">> \o IntStr(i) \o <<"]">>)

\* variant: the comparison is not strict
FlaggedOrEqual(e, t) == e.num <= t * e.den

\* line 81: entropy < threshold
Flagged(e, t) == EntropyBelow(e, t)

\* variant: the new element is put in front
CollectFront(list, x) == <<x>> \o list

\* line 82: list.append
Collect(list, x) == Append(list, x)

\* line 82: the tuple appended
Finding(path, obj, e) == [path |-> path, value |-> obj.s, entropy |-> e]

\* line 83: obj[:50]
Truncate(s) == SubSeq(s, 1, IF Len(s) < TruncLen THEN Len(s) ELSE TruncLen)

\* a call of traverse fits the interpreter's stack
CanCall(depth) == depth <= RecursionLimit

Frame(obj, path, pos) == [obj |-> obj, path |-> path, i |-> 1, pos |-> pos]

Top == stack[Len(stack)]

\* the frame on top returns to its caller
Pop ==
    /\ stack' = SubSeq(stack, 1, Len(stack) - 1)
    /\ pc' = IF Len(stack) = 1 THEN "return" ELSE "walking"

\* an exception leaves traverse and reaches `except Exception` (lines 93-94)
Unwind ==
    /\ stack' = <<>>
    /\ raised' = TRUE
    /\ caught' = "Exception"
    /\ pc' = "return"

\* the child is called: the loop index moves on and a frame is pushed
Push(child, new_path, k) ==
    /\ stack' = Append([stack EXCEPT ![Len(stack)].i = @ + 1],
                       Frame(child, new_path, Append(Top.pos, k)))
    /\ visited' = Append(visited, Append(Top.pos, k))
    /\ UNCHANGED <<pc, raised, caught>>

\* line 85: traverse(data)
CallTraverse ==
    /\ pc = "traverse"
    /\ stack' = <<Frame(data, PyStr(<<>>), <<>>)>>
    /\ visited' = <<<<>>>>
    /\ pc' = "walking"
    /\ UNCHANGED <<inputVars, threshold, parser, data, low_entropy_values, warnings,
                   caught, result, stdout, scored, found_pos, raised, prev,
                   entropyVars>>

\* lines 71-74: one iteration of `for key, value in obj.items()`
IterDict ==
    /\ pc = "walking"
    /\ Top.obj.type = "dict"
    /\ Top.i <= Len(Top.obj.items)
    /\ LET item == Top.obj.items[Top.i]
       IN IF CanCall(Len(stack) + 1)
          THEN Push(item.value, NewPathDict(Top.path, item.key), Top.i)
          ELSE Unwind /\ visited' = visited
    /\ UNCHANGED <<inputVars, threshold, parser, data, low_entropy_values, warnings,
                   result, stdout, scored, found_pos, prev, entropyVars>>

\* lines 75-78: one iteration of `for i, value in enumerate(obj)`
IterList ==
    /\ pc = "walking"
    /\ Top.obj.type = "list"
    /\ Top.i <= Len(Top.obj.items)
    /\ IF CanCall(Len(stack) + 1)
       THEN Push(Top.obj.items[Top.i], NewPathList(Top.path, Top.i - 1), Top.i)
       ELSE Unwind /\ visited' = visited
    /\ UNCHANGED <<inputVars, threshold, parser, data, low_entropy_values, warnings,
                   result, stdout, scored, found_pos, prev, entropyVars>>

\* the for loop of a dict or list is exhausted: traverse returns
EndLoop ==
    /\ pc = "walking"
    /\ Top.obj.type \in {"dict", "list"}
    /\ Top.i > Len(Top.obj.items)
    /\ Pop
    /\ UNCHANGED <<inputVars, threshold, parser, data, low_entropy_values, warnings,
                   caught, result, stdout, ghostVars, raised, prev, entropyVars>>

\* lines 79-83: a string
VisitStr ==
    /\ pc = "walking"
    /\ Top.obj.type = "str"
    /\ IF ~CanCall(Len(stack) + 1)
       THEN \* calculate_entropy cannot be called
            /\ Unwind
            /\ UNCHANGED <<low_entropy_values, warnings, scored, found_pos>>
       ELSE LET e == calculate_entropy(Top.obj.s)
            IN /\ scored' = Append(scored, Top.pos)
               /\ IF Flagged(e, threshold)
                  THEN /\ low_entropy_values' =
                            Collect(low_entropy_values, Finding(Top.path, Top.obj, e))
                       /\ found_pos' = Collect(found_pos, Top.pos)
                       /\ IF CanCall(Len(stack) + LogFrames)
                          THEN /\ warnings' =
                                    Append(warnings,
                                           [path |-> Top.path, entropy |-> e,
                                            value |-> Truncate(Top.obj.s)])
                               /\ Pop
                               /\ UNCHANGED <<raised, caught>>
                          ELSE \* logging.warning runs out of stack
                               Unwind /\ warnings' = warnings
                  ELSE /\ Pop
                       /\ UNCHANGED <<low_entropy_values, warnings, found_pos,
                                      raised, caught>>
    /\ UNCHANGED <<inputVars, threshold, parser, data, result, stdout, visited,
                   prev, entropyVars>>

\* no branch of lines 71-79 matches: a number, a boolean, None
VisitOther ==
    /\ pc = "walking"
    /\ Top.obj.type \notin {"dict", "list", "str"}
    /\ Pop
    /\ UNCHANGED <<inputVars, threshold, parser, data, low_entropy_values, warnings,
                   caught, result, stdout, ghostVars, raised, prev, entropyVars>>

\* line 96: return low_entropy_values
Return ==
    /\ pc = "return"
    /\ result' = [returned |-> TRUE, value |-> low_entropy_values]
    /\ pc' = "done"
    /\ UNCHANGED <<inputVars, threshold, parser, data, stack, low_entropy_values,
                   warnings, caught, stdout, ghostVars, raised, prev, entropyVars>>

(***************************************************************************)
(* The callers                                                             *)
(***************************************************************************)
\* main, lines 142-149
Report ==
    /\ pc = "done"
    /\ stdout' =
         IF result.value # <<>>
         THEN <<"Low entropy values found:">> \o
              [k \in 1..Len(result.value) |->
                  [path |-> result.value[k].path,
                   value |-> Truncate(result.value[k].value),
                   entropy |-> result.value[k].entropy]]
         ELSE <<"No low entropy values found.">>
    /\ pc' = "exit"
    /\ UNCHANGED <<inputVars, threshold, parser, data, stack, low_entropy_values,
                   warnings, caught, result, ghostVars, raised, prev, entropyVars>>

\* check_file_entropy is called again on the same file with a higher threshold
Rescan ==
    /\ pc = "done"
    /\ ~prev.has
    /\ \E t \in Thresholds :
          /\ t > threshold
          /\ threshold' = t
    /\ prev' = [has |-> TRUE, threshold |-> threshold, value |-> result.value]
    /\ pc' = "open"
    /\ parser' = "none"
    /\ data' = NoData
    /\ stack' = <<>>
    /\ low_entropy_values' = <<>>
    /\ warnings' = <<>>
    /\ caught' = "none"
    /\ result' = NoResult
    /\ visited' = <<>>
    /\ scored' = <<>>
    /\ found_pos' = <<>>
    /\ raised' = FALSE
    /\ UNCHANGED <<inputVars, stdout, entropyVars>>

Next ==
    \/ Open
    \/ LoadJson
    \/ LoadYaml
    \/ Unsupported
    \/ CallTraverse
    \/ IterDict
    \/ IterList
    \/ EndLoop
    \/ VisitStr
    \/ VisitOther
    \/ Return
    \/ Report
    \/ Rescan

Spec == Init /\ [][Next]_vars

(***************************************************************************)
(* Specification of calculate_entropy alone: every string over Alphabet    *)
(* of at most MaxStrLen characters is scored.                              *)
(***************************************************************************)
Alphabet == {"a", "b", "c", "d"}
AllStrings == UNION {[1..n -> Alphabet] : n \in 0..MaxStrLen}

EntropyInit ==
    /\ file_ext = "json"
    /\ file_state = "ok"
    /\ content = Malformed
    /\ Entry(3000)
    /\ prev = NoPrev
    /\ data_in \in AllStrings
    /\ frequency_map = <<>>
    /\ entropy = [num |-> 0, den |-> 1]
    /\ epc = "call"

\* lines 24-43
Score ==
    /\ epc = "call"
    /\ frequency_map' = FrequencyMap(data_in)
    /\ entropy' = calculate_entropy(data_in)
    /\ epc' = "return"
    /\ UNCHANGED <<inputVars, threshold, pc, parser, data, stack, low_entropy_values,
                   warnings, caught, result, stdout, ghostVars, raised, prev,
                   data_in>>

EntropyNext == Score

EntropySpec == EntropyInit /\ [][EntropyNext]_vars

(***************************************************************************)
(* Vocabulary of the properties                                            *)
(***************************************************************************)
Range(f) == {f[i] : i \in DOMAIN f}

RECURSIVE Concat(_)
Concat(ss) == IF ss = <<>> THEN <<>> ELSE Head(ss) \o Concat(Tail(ss))

Children(t) ==
    CASE t.type = "dict" -> [i \in 1..Len(t.items) |-> t.items[i].value]
      [] t.type = "list" -> t.items
      [] OTHER -> <<>>

\* positions of the nodes of t in depth-first pre-order, child order as declared
RECURSIVE PreOrder(_, _)
PreOrder(t, pos) ==
    <<pos>> \o Concat([i \in 1..Len(Children(t)) |->
                          PreOrder(Children(t)[i], Append(pos, i))])

RECURSIVE NodeAt(_, _)
NodeAt(t, pos) ==
    IF pos = <<>> THEN t ELSE NodeAt(Children(t)[Head(pos)], Tail(pos))

IsStr(t, pos) == NodeAt(t, pos).type = "str"

StringLeaves(t) == SelectSeq(PreOrder(t, <<>>), LAMBDA p : IsStr(t, p))

\* the string leaves below the threshold, in pre-order
LowLeaves(t, th) ==
    SelectSeq(StringLeaves(t),
              LAMBDA p : LET e == calculate_entropy(NodeAt(t, p).s)
                         IN e.num < th * e.den)

Rank(t, pos) == CHOOSE i \in 1..Len(PreOrder(t, <<>>)) : PreOrder(t, <<>>)[i] = pos

IsPrefix(a, b) == Len(a) <= Len(b) /\ a = SubSeq(b, 1, Len(a))

RECURSIVE IsSubseq(_, _)
IsSubseq(a, b) ==
    IF a = <<>> THEN TRUE
    ELSE IF b = <<>> THEN FALSE
    ELSE IF Head(a) = Head(b) THEN IsSubseq(Tail(a), Tail(b))
    ELSE IsSubseq(a, Tail(b))

\* the path of the node at pos by the documented rule, as a string
RECURSIVE DocPath(_, _)
DocPath(t, pos) ==
    IF pos = <<>> THEN <<>>
    ELSE LET n == Len(pos)
             parentPos == SubSeq(pos, 1, n - 1)
             parent == NodeAt(t, parentPos)
             pp == DocPath(t, parentPos)
         IN IF parent.type = "dict"
            THEN IF pp = <<>> THEN parent.items[pos[n]].key.s
                 ELSE pp \o <<".">> \o parent.items[pos[n]].key.s
            ELSE pp \o <<"[">> \o IntStr(pos[n] - 1) \o <<"]">>

Parsed == data # NoData
Returned == result.returned
Paths(fs) == [k \in 1..Len(fs) |-> fs[k].path.s]

(***************************************************************************)
(* Properties                                                              *)
(***************************************************************************)
LowString(f, pos) ==
    /\ Parsed
    /\ IsStr(data, pos)
    /\ f.value = NodeAt(data, pos).s
    /\ f.entropy = calculate_entropy(f.value)
    /\ f.entropy.num < threshold * f.entropy.den

\* C1: at every point of the traversal and in the returned list, every
\* Finding is a string leaf of the tree, carries the entropy of its value,
\* and that entropy is strictly below the threshold; a tree without string
\* leaves gives no Finding.
C1_FindingsAreLowStrings ==
    /\ Len(found_pos) = Len(low_entropy_values)
    /\ \A k \in 1..Len(low_entropy_values) :
          LowString(low_entropy_values[k], found_pos[k])
    /\ Returned => result.value = low_entropy_values
    /\ (Parsed /\ StringLeaves(data) = <<>>) => low_entropy_values = <<>>

\* a returned list with a Finding, from a tree that also holds a string
\* whose entropy equals the threshold
C1_Witness ==
    /\ Returned
    /\ result.value # <<>>
    /\ \E p \in Range(StringLeaves(data)) :
          LET e == calculate_entropy(NodeAt(data, p).s)
          IN e.num = threshold * e.den /\ p \notin Range(found_pos)

\* C2: the returned list holds exactly one Finding per string leaf below the
\* threshold, none missed, none twice, each with the leaf's full string; the
\* password/token document with threshold 3.0 gives one Finding, at password.
C2_ExactlyTheLowLeaves ==
    (Returned /\ Parsed) =>
        /\ found_pos = LowLeaves(data, threshold)
        /\ Len(result.value) = Len(found_pos)
        /\ \A k \in 1..Len(result.value) :
              result.value[k].value = NodeAt(data, found_pos[k]).s
        /\ (data = PasswordDoc /\ threshold = 3000) =>
              Paths(result.value) = <<<<"p", "a", "s", "s", "w", "o", "r", "d">>>>

OrderOK(d, v, fp, r, th) ==
    d # NoData =>
        /\ IsPrefix(v, PreOrder(d, <<>>))
        /\ \A j, k \in 1..Len(fp) :
              j < k => Rank(d, fp[j]) < Rank(d, fp[k])
        /\ (r.returned /\ d = OrderDoc /\ th = 5000) =>
              Paths(r.value) =
                 <<<<"a">>, <<"b", "[", "0", "]">>, <<"b", "[", "1", "]">>>>

\* C3: Findings are appended in depth-first pre-order of the tree (key order
\* of mappings, index order of sequences), and a Finding once appended is
\* neither moved nor removed while the scan runs; the a/b document with
\* threshold 5.0 gives a, b[0], b[1] in that order.
C3_PreOrderKept ==
    [][/\ OrderOK(data, visited, found_pos, result, threshold)
       /\ OrderOK(data', visited', found_pos', result', threshold')
       /\ (pc' # "open" => IsPrefix(low_entropy_values, low_entropy_values'))]_vars

C3_Witness ==
    /\ Returned
    /\ data = OrderDoc
    /\ threshold = 5000
    /\ Len(result.value) = 3

\* C4: in a tree whose mapping keys are all strings, the path of every node
\* reached, and of every Finding, is the root's empty path extended per edge:
\* key (or parent + "." + key) under a mapping, parent + "[" + i + "]" under
\* a sequence; a string at the root has the empty path.
C4_PathsFollowRule ==
    (Parsed /\ StringKeys(data)) =>
        /\ \A k \in 1..Len(stack) :
              stack[k].path = PyStr(DocPath(data, stack[k].pos))
        /\ \A k \in 1..Len(low_entropy_values) :
              low_entropy_values[k].path = PyStr(DocPath(data, found_pos[k]))

\* a Finding below a sequence and a mapping: its path has a bracket and a dot
C4_Witness ==
    /\ Returned
    /\ StringKeys(data)
    /\ \E k \in 1..Len(result.value) :
          /\ "." \in Range(result.value[k].path.s)
          /\ "[" \in Range(result.value[k].path.s)

\* C5: the path of every Finding is a string, with every mapping key on the
\* way coerced to its string representation and none dropped.
C5_PathsAreStrings ==
    Parsed =>
        \A k \in 1..Len(low_entropy_values) :
           /\ low_entropy_values[k].path.type = "str"
           /\ low_entropy_values[k].path.s = DocPath(data, found_pos[k])

\* C6: for thresholds t1 <= t2 on the same file the findings for t1 are a
\* subsequence of those for t2, so there are no fewer; a negative threshold
\* gives none.
C6_Monotone ==
    /\ (prev.has /\ Returned) =>
          /\ IsSubseq(prev.value, result.value)
          /\ Len(prev.value) <= Len(result.value)
    /\ (Returned /\ threshold < 0) => result.value = <<>>

Count(c, s) == Cardinality({i \in 1..Len(s) : s[i] = c})

RECURSIVE SumCounts(_, _)
SumCounts(f, S) ==
    IF S = {} THEN 0
    ELSE LET c == CHOOSE x \in S : TRUE IN f[c] + SumCounts(f, S \ {c})

\* k distinct characters, each n/k times
Uniform(s) ==
    s # <<>> /\ \A c \in Range(s) : Count(c, s) * Cardinality(Range(s)) = Len(s)

\* C7: a non-empty string of k distinct characters each occurring n/k times
\* scores log2(k), so 0 when k = 1; the counts of the frequency table sum to
\* the length of the string.
C7_UniformIsLog2 ==
    epc = "return" =>
        /\ SumCounts(frequency_map, DOMAIN frequency_map) = Len(data_in)
        /\ Uniform(data_in) =>
              entropy.num = entropy.den * Log2Milli(Cardinality(Range(data_in)))
        /\ (data_in # <<>> /\ Cardinality(Range(data_in)) = 1) => entropy.num = 0
        /\ data_in = <<"a", "a", "b", "b">> => entropy = [num |-> 4000, den |-> 4]
        /\ data_in = <<"a", "b", "c", "d">> => entropy = [num |-> 8000, den |-> 4]

C7_Witness ==
    /\ epc = "return"
    /\ Uniform(data_in)
    /\ Cardinality(Range(data_in)) = 2
    /\ Len(data_in) = 4

NoScan ==
    /\ stack = <<>>
    /\ visited = <<>>
    /\ scored = <<>>
    /\ warnings = <<>>
    /\ low_entropy_values = <<>>
    /\ pc \notin {"traverse", "walking"}
    /\ pc \in {"done", "exit"} => (Returned /\ result.value = <<>>)

\* C8: with an unsupported suffix, a file that cannot be opened or content
\* that does not parse, the traversal never starts, nothing is scored or
\* logged and the list returned is empty; with an unsupported suffix no
\* parser is invoked.
C8_NoScanOnBadInput ==
    /\ (file_ext \notin {"json", "yaml", "yml"}
          \/ file_state # "ok"
          \/ content = Malformed) => NoScan
    /\ file_ext \notin {"json", "yaml", "yml"} => parser = "none"

C8_Witness ==
    /\ pc = "done"
    /\ caught = "unsupported"
    /\ content # Malformed
    /\ result.value = <<>>

\* C9: the traversal of any finite tree ends without failing, every node
\* visited once and every string leaf scored once.
C9_VisitsAll ==
    (pc \in {"done", "exit"} /\ Parsed) =>
        /\ ~raised
        /\ visited = PreOrder(data, <<>>)
        /\ scored = StringLeaves(data)

\* C10: an exception raised while traversing is not turned into a normal
\* return of the findings collected so far.
C10_NotSwallowed == raised => ~Returned

====
